---------------------------- MODULE Spec2Model ----------------------------
(***************************************************************************)
(* A model of the RTSP detection backend: the Flask handlers of            *)
(* backend/app.py (the session registry active_sessions, start/stop/status *)
(* and the MJPEG viewer generator), the worker loop of                     *)
(* backend/detection_service.py (RTSPDetector) and the URL validation of   *)
(* backend/utils.py.                                                       *)
(*                                                                         *)
(* Strings whose characters matter (the rtsp url) are sequences of         *)
(* one-character strings.  Python's None is the string "None" where the    *)
(* other values of the field are strings, and 0 where they are positive    *)
(* numbers.                                                                *)
(***************************************************************************)
EXTENDS Integers, Sequences, FiniteSets, TLC

(***************************************************************************)
(* Bounds of the model.                                                    *)
(***************************************************************************)
\* Number of session ids uuid4 may hand out in one run.
NumSessions == 2
\* Number of frames one source delivers before it only fails to read.
MaxFrames == 3
\* Most boxes the model reports for one frame.
MaxDets == 1
\* Last reading of the wall clock.
MaxTime == 3
\* Longest tail appended to a url prefix in the url validation inputs.
MaxTail == 3

Sessions == 1..NumSessions
Viewers == {"v1"}

(***************************************************************************)
(* utils.validate_rtsp_url                                                 *)
(***************************************************************************)
RtspPrefix == <<"r", "t", "s", "p", ":", "/", "/">>

\* The characters of the model's urls, by the classes the pattern names.
WordChars == {"r", "t", "s", "p", "h"}
HostChars == WordChars \cup {".", "@", ":", "%", "-"}
PathChars == WordChars \cup {".", "%", "-"}
QueryChars == WordChars \cup {"=", "&", ".", "-"}

\* str.startswith
StartsWith(url, prefix) ==
    /\ Len(url) >= Len(prefix)
    /\ SubSeq(url, 1, Len(prefix)) = prefix

AllIn(seq, chars) == \A i \in 1..Len(seq) : seq[i] \in chars

\* (?:/[\w\.%-]+)+ over the whole of seq: one or more "/"-led, non-empty segments
IsPathPart(seq) ==
    /\ Len(seq) >= 2
    /\ seq[1] = "/"
    /\ seq[Len(seq)] # "/"
    /\ AllIn(seq, PathChars \cup {"/"})
    /\ \A i \in 1..(Len(seq) - 1) : ~(seq[i] = "/" /\ seq[i + 1] = "/")

\* (?:\?[\w=&\.-]+)? over the whole of seq
IsQueryPart(seq) ==
    \/ seq = <<>>
    \/ /\ Len(seq) >= 2
       /\ seq[1] = "?"
       /\ AllIn(SubSeq(seq, 2, Len(seq)), QueryChars)

\* The text "$" anchors at: the end of the string, or just before a final newline.
DollarEnds(url) ==
    {Len(url)} \cup (IF Len(url) >= 1 /\ url[Len(url)] = "\n" THEN {Len(url) - 1} ELSE {})

\* re.match(rtsp_pattern, url)
RtspPatternMatches(url) ==
    /\ StartsWith(url, RtspPrefix)
    /\ \E e \in DollarEnds(url) :
          \E h \in (Len(RtspPrefix) + 1)..e : \E q \in h..e :
              /\ AllIn(SubSeq(url, Len(RtspPrefix) + 1, h), HostChars)
              /\ IsPathPart(SubSeq(url, h + 1, q))
              /\ IsQueryPart(SubSeq(url, q + 1, e))

\* validate_rtsp_url without its startswith shortcut: the pattern alone decides.
validate_rtsp_url_NoShortcut(url) == RtspPatternMatches(url)

validate_rtsp_url(url) ==
    IF StartsWith(url, RtspPrefix) THEN TRUE ELSE RtspPatternMatches(url)

(***************************************************************************)
(* Inputs                                                                  *)
(***************************************************************************)
Str_http == <<"h", "t", "t", "p", ":", "/", "/">>
Str_rtsp_short == <<"r", "t", "s", "p", ":", "/">>
Str_upper == <<"R", "T", "S", "P", ":", "/", "/">>
Str_spaced == <<" ">> \o RtspPrefix

UrlPrefixes == {<<>>, RtspPrefix, Str_http, Str_rtsp_short, Str_upper, Str_spaced}
TailChars == {"h", "/", "?", "=", ":", " ", "\n"}

RECURSIVE SeqsUpTo(_, _)
SeqsUpTo(chars, n) ==
    IF n = 0 THEN {<<>>}
    ELSE LET shorter == SeqsUpTo(chars, n - 1)
         IN  shorter \cup {Append(t, c) : t \in shorter, c \in chars}

\* The urls url validation is tried on.
Urls == {p \o t : p \in UrlPrefixes, t \in SeqsUpTo(TailChars, MaxTail)}

\* The request bodies POST /api/start_detection is tried with: rtsp_url absent
\* (data.get returns None), empty, of another scheme, and two rtsp urls.
NoUrl == [given |-> FALSE, url |-> <<>>]
Url(u) == [given |-> TRUE, url |-> u]
Str_rtsp_cam == RtspPrefix \o <<"h", "/", "s">>
CreateRequests ==
    {NoUrl, Url(<<>>), Url(Str_http \o <<"h">>), Url(Str_rtsp_cam)}

(***************************************************************************)
(* State                                                                   *)
(***************************************************************************)
VARIABLES
    \* app.active_sessions: whether the id is a key, and the entry's fields
    registered, status, error,
    \* the detection thread of each session: where it stands in
    \* run_detection_in_thread / RTSPDetector.start_detection
    thread,
    \* RTSPDetector fields
    rtsp_url, running, frame_count, current_frame, current_results,
    current_full_detections, last_save_time,
    \* locals of start_detection: the capture handle, current_time, and the
    \* exception its except clause caught
    cap, current_time, caught,
    \* the session's files on disk, in the order written
    files,
    \* the wall clock
    now,
    \* a stop_detection request between its two writes
    stopping,
    \* the last response a handler returned
    resp,
    \* the generator of each /api/stream connection
    vpc, vsid, vframe, voverlay, vcount, chunk,
    \* a list_sessions request in its loop: whether one is, the keys the
    \* registry held when the loop began, and the entries gathered so far
    lpc, lbefore, lseen,
    \* the url validate_rtsp_url is applied to on its own, and its answer
    probe_url, probe_valid

registry_vars == <<registered, status, error>>
detector_vars ==
    <<rtsp_url, running, frame_count, current_frame, current_results,
      current_full_detections, last_save_time>>
worker_vars == <<thread, cap, current_time, caught>>
viewer_vars == <<vpc, vsid, vframe, voverlay, vcount, chunk>>
list_vars == <<lpc, lbefore, lseen>>
probe_vars == <<probe_url, probe_valid>>
vars ==
    <<registry_vars, detector_vars, worker_vars, files, now, stopping, resp,
      viewer_vars, list_vars, probe_vars>>

(***************************************************************************)
(* Program constants                                                       *)
(***************************************************************************)
\* RTSPDetector.__init__ defaults
save_interval == 1
detect_classes == {0, 2, 16}
save_classes == {0}

\* An optional value: <<>> is None, <<x>> is x.
None == <<>>
Some(x) == <<x>>
IsNone(o) == o = <<>>
Get(o) == o[1]

NoResp ==
    [op |-> "none", sid |-> 0, code |-> 0, req |-> NoUrl, status |-> "None",
     error |-> "None", limit |-> 0, results |-> <<>>, sessions |-> <<>>]
Response(op, sid, code) == [NoResp EXCEPT !.op = op, !.sid = sid, !.code = code]

\* Boot of the process: time.time() is far beyond one save interval.
StartTime == save_interval

InitProgram ==
    /\ registered = [s \in Sessions |-> FALSE]
    /\ status = [s \in Sessions |-> "None"]
    /\ error = [s \in Sessions |-> "None"]
    /\ thread = [s \in Sessions |-> "none"]
    /\ rtsp_url = [s \in Sessions |-> <<>>]
    /\ running = [s \in Sessions |-> FALSE]
    /\ frame_count = [s \in Sessions |-> 0]
    /\ current_frame = [s \in Sessions |-> 0]
    /\ current_results = [s \in Sessions |-> None]
    /\ current_full_detections = [s \in Sessions |-> None]
    /\ last_save_time = [s \in Sessions |-> 0]
    /\ cap = [s \in Sessions |-> "none"]
    /\ current_time = [s \in Sessions |-> 0]
    /\ caught = [s \in Sessions |-> "None"]
    /\ files = [s \in Sessions |-> <<>>]
    /\ now = StartTime
    /\ stopping = [s \in Sessions |-> FALSE]
    /\ resp = NoResp
    /\ vpc = [v \in Viewers |-> "idle"]
    /\ vsid = [v \in Viewers |-> 0]
    /\ vframe = [v \in Viewers |-> 0]
    /\ voverlay = [v \in Viewers |-> None]
    /\ vcount = [v \in Viewers |-> 0]
    /\ chunk = [v \in Viewers |-> "none"]
    /\ lpc = "idle"
    /\ lbefore = {}
    /\ lseen = <<>>

Init ==
    /\ InitProgram
    /\ probe_url = <<>>
    /\ probe_valid = "unset"

(***************************************************************************)
(* app.start_detection: POST /api/start_detection                          *)
(***************************************************************************)
\* uuid.uuid4(): an id no session of this run holds yet.
FreshIds(pool) == {s \in pool : thread[s] = "none"}
NewSessionId(pool) == CHOOSE s \in FreshIds(pool) : \A o \in FreshIds(pool) : s <= o

\* The request taken as soon as it carries a url: the validation left out.
RequestAccepted_Unvalidated(req) ==
    /\ req.given
    /\ req.url # <<>>

\* lines 55-61: `not rtsp_url`, then the validation
RequestAccepted(req) ==
    /\ req.given
    /\ req.url # <<>>
    /\ validate_rtsp_url(req.url)

\* lines 55-61: the 400 responses; nothing else is touched.
StartDetectionReject(req) ==
    /\ ~RequestAccepted(req)
    /\ resp' = [Response("start", 0, 400) EXCEPT !.req = req]
    /\ UNCHANGED <<registry_vars, detector_vars, worker_vars, files, now,
                   stopping, viewer_vars, list_vars, probe_vars>>

\* lines 63-79 raise (os.makedirs, or the model load of RTSPDetector.__init__,
\* which re-raises): the handler's except clause answers 500.
StartDetectionFails(req) ==
    /\ RequestAccepted(req)
    /\ resp' = [Response("start", 0, 500) EXCEPT !.req = req]
    /\ UNCHANGED <<registry_vars, detector_vars, worker_vars, files, now,
                   stopping, viewer_vars, list_vars, probe_vars>>

\* lines 63-91: the detector is built and its thread started; the handler
\* has not yet stored the session.
StartDetectionSpawn(req, pool) ==
    /\ RequestAccepted(req)
    /\ FreshIds(pool) # {}
    /\ LET s == NewSessionId(pool) IN
        /\ rtsp_url' = [rtsp_url EXCEPT ![s] = req.url]
        /\ running' = [running EXCEPT ![s] = FALSE]
        /\ last_save_time' = [last_save_time EXCEPT ![s] = 0]
        /\ frame_count' = [frame_count EXCEPT ![s] = 0]
        /\ current_frame' = [current_frame EXCEPT ![s] = 0]
        /\ current_results' = [current_results EXCEPT ![s] = None]
        /\ current_full_detections' = [current_full_detections EXCEPT ![s] = None]
        /\ thread' = [thread EXCEPT ![s] = "spawned"]
    /\ UNCHANGED <<registry_vars, cap, current_time, caught, files, now,
                   stopping, resp, viewer_vars, list_vars, probe_vars>>

\* The entry stored with the word the 201 response carries (line 109).
InitialStatus_Started == "started"

\* line 99
InitialStatus == "running"

\* lines 94-112: the entry is stored and 201 returned.
StartDetectionRegister(s) ==
    /\ thread[s] # "none"
    /\ ~registered[s]
    /\ registered' = [registered EXCEPT ![s] = TRUE]
    /\ status' = [status EXCEPT ![s] = InitialStatus]
    /\ error' = [error EXCEPT ![s] = "None"]
    /\ resp' = [Response("start", s, 201) EXCEPT !.req = Url(rtsp_url[s])]
    /\ UNCHANGED <<detector_vars, worker_vars, files, now, stopping,
                   viewer_vars, list_vars, probe_vars>>

(***************************************************************************)
(* app.stop_detection: POST /api/stop_detection/<session_id>               *)
(***************************************************************************)
\* lines 121-122
StopNotFound(s) ==
    /\ ~registered[s]
    /\ resp' = Response("stop", s, 404)
    /\ UNCHANGED <<registry_vars, detector_vars, worker_vars, files, now,
                   stopping, viewer_vars, list_vars, probe_vars>>

\* RTSPDetector.stop_detection
stop_detection_flag == FALSE

\* A stop that flips the entry between running and stopped.
StatusAfterStop_Toggle(s) == IF status[s] = "stopped" THEN "running" ELSE "stopped"

\* A stop that marks the entry as being stopped.
StatusAfterStop_Stopping(s) == "stopping"

\* line 130
StatusAfterStop(s) == "stopped"

\* A single detector object behind every entry of the registry.
detector_of_Shared(s) == 1

\* lines 72 and 98: each entry holds the RTSPDetector built for it, which
\* line 126 fetches; detectors are named by the session they were built for.
detector_of(s) == s

\* lines 121-128: the detector's flag is cleared.
StopBegin(s) ==
    /\ registered[s]
    /\ ~stopping[s]
    /\ running' = [running EXCEPT ![detector_of(s)] = stop_detection_flag]
    /\ stopping' = [stopping EXCEPT ![s] = TRUE]
    /\ UNCHANGED <<registry_vars, rtsp_url, frame_count, current_frame,
                   current_results, current_full_detections, last_save_time,
                   worker_vars, files, now, resp, viewer_vars, list_vars, probe_vars>>

\* lines 130-138: the entry's status is written and 200 returned.
StopFinish(s) ==
    /\ stopping[s]
    /\ status' = [status EXCEPT ![s] = StatusAfterStop(s)]
    /\ stopping' = [stopping EXCEPT ![s] = FALSE]
    /\ resp' = [Response("stop", s, 200) EXCEPT !.status = "stopped"]
    /\ UNCHANGED <<registered, error, detector_vars, worker_vars, files, now,
                   viewer_vars, list_vars, probe_vars>>

(***************************************************************************)
(* app.session_status: GET /api/session_status/<session_id>                *)
(***************************************************************************)
SessionStatus(s) ==
    /\ resp' = IF registered[s]
               THEN [Response("status", s, 200) EXCEPT
                        !.status = status[s], !.error = error[s]]
               ELSE Response("status", s, 404)
    /\ UNCHANGED <<registry_vars, detector_vars, worker_vars, files, now,
                   stopping, viewer_vars, list_vars, probe_vars>>

(***************************************************************************)
(* app.list_sessions: GET /api/sessions                                    *)
(***************************************************************************)
\* The keys of active_sessions
Keys == {s \in Sessions : registered[s]}

\* lines 216-218: the loop over active_sessions.items() begins; the iterator
\* remembers the size of the dictionary
ListBegin ==
    /\ lpc = "idle"
    /\ lpc' = "iter"
    /\ lbefore' = Keys
    /\ lseen' = <<>>
    /\ UNCHANGED <<registry_vars, detector_vars, worker_vars, files, now,
                   stopping, resp, viewer_vars, probe_vars>>

\* line 218: the test the dictionary iterator makes each time it is advanced
SizeChanged == Cardinality(Keys) # Cardinality(lbefore)

\* line 218, the dictionary has changed size: RuntimeError, which the handler
\* does not catch; the request is answered 500.
ListRaises ==
    /\ lpc = "iter"
    /\ SizeChanged
    /\ lpc' = "idle"
    /\ resp' = Response("list", 0, 500)
    /\ UNCHANGED <<registry_vars, detector_vars, worker_vars, files, now,
                   stopping, viewer_vars, lbefore, lseen, probe_vars>>

\* The sessions the loop has gathered
Gathered(seen) == {seen[i].session_id : i \in 1..Len(seen)}

\* lines 218-232: the next entry is gathered (the model leaves the order of
\* the dictionary open)
ListNext(s) ==
    /\ lpc = "iter"
    /\ ~SizeChanged
    /\ s \in lbefore \ Gathered(lseen)
    /\ lseen' = Append(lseen, [session_id |-> s, status |-> status[s],
                                error |-> error[s]])
    /\ UNCHANGED <<registry_vars, detector_vars, worker_vars, files, now,
                   stopping, resp, viewer_vars, lpc, lbefore, probe_vars>>

\* lines 218 and 234: the iterator is exhausted and the entries are returned
ListReturn ==
    /\ lpc = "iter"
    /\ ~SizeChanged
    /\ lbefore = Gathered(lseen)
    /\ lpc' = "idle"
    /\ resp' = [Response("list", 0, 200) EXCEPT !.sessions = lseen]
    /\ UNCHANGED <<registry_vars, detector_vars, worker_vars, files, now,
                   stopping, viewer_vars, lbefore, lseen, probe_vars>>

(***************************************************************************)
(* app.get_detection_results: GET /api/detection_results/<session_id>      *)
(***************************************************************************)
\* utils.get_latest_detection_results, the default of its limit parameter
default_limit == 10

\* The values of the limit parameter a results request is sent with.
Limits == {1, 2}

Min(a, b) == IF a <= b THEN a ELSE b

Perms(n) == {o \in [1..n -> 1..n] : \A i, j \in 1..n : i # j => o[i] # o[j]}

\* utils lines 26-29: the records of the session in any order glob may list
\* them and the stable sort by modification time, latest first, may leave
\* them; a record is modified when it is written.
SortedByMtime(s) ==
    {o \in Perms(Len(files[s])) :
        \A i \in 1..(Len(files[s]) - 1) :
            files[s][o[i]].ts >= files[s][o[i + 1]].ts}

\* utils lines 38-48: a record as loaded, with the path of its annotated frame
\* when that file exists
LoadedRecord(f) ==
    [view |-> "persisted", frame_id |-> f.frame_id, detections |-> f.detections,
     frame_path |-> f.annotated]

\* utils.get_latest_detection_results(session_dir, limit)
get_latest_detection_results(s, order, limit) ==
    [i \in 1..Min(limit, Len(files[s])) |-> LoadedRecord(files[s][order[i]])]

\* app lines 186-190: the full view of the detector, given the frame path of
\* the latest record when that has one
FullResult(s, latest) ==
    [Get(current_full_detections[s]) EXCEPT
        !.frame_path = IF latest.frame_path THEN TRUE ELSE @]

\* lines 168-169
GetDetectionResultsNotFound(s, limit) ==
    /\ ~registered[s]
    /\ resp' = [Response("results", s, 404) EXCEPT !.limit = limit]
    /\ UNCHANGED <<registry_vars, detector_vars, worker_vars, files, now,
                   stopping, viewer_vars, list_vars, probe_vars>>

\* lines 171-208, for a request sent with ?limit=limit: the records are
\* fetched with the default limit; with a full view in the detector the
\* first of them is replaced by that view, which is the detector's own
\* dictionary and so receives the frame path.
GetDetectionResults(s, limit) ==
    /\ registered[s]
    /\ \E order \in SortedByMtime(s) :
          LET results == get_latest_detection_results(s, order, default_limit)
              replaced == ~IsNone(current_full_detections[s])
              full_result == FullResult(s, results[1])
          IN  /\ resp' =
                    [Response("results", s, 200) EXCEPT
                        !.limit = limit,
                        !.results =
                            IF replaced
                            THEN [i \in 1..Len(results) |->
                                    IF i = 1
                                    THEN [view |-> "full",
                                          frame_id |-> full_result.frame_id,
                                          detections |-> full_result.detections,
                                          frame_path |-> full_result.frame_path]
                                    ELSE results[i]]
                            ELSE results]
              /\ current_full_detections' =
                    IF replaced /\ Len(results) > 0
                    THEN [current_full_detections EXCEPT ![s] = Some(full_result)]
                    ELSE current_full_detections
    /\ UNCHANGED <<registry_vars, rtsp_url, running, frame_count,
                   current_frame, current_results, last_save_time, worker_vars,
                   files, now, stopping, viewer_vars, list_vars, probe_vars>>

(***************************************************************************)
(* The detection thread: app.run_detection_in_thread around                *)
(* RTSPDetector.start_detection                                            *)
(***************************************************************************)
\* COCO class ids the model may report: the three detect classes and one other.
ModelClasses == {0, 1, 2, 16}
\* What self.model(frame) may return: result.boxes as the class id of each box.
ModelOutputs == SeqsUpTo(ModelClasses, MaxDets)

\* The except clause of start_detection raising again after its cleanup.
Escapes_Reraise(e) == TRUE

\* Whether an exception raised inside start_detection's try leaves
\* start_detection: `except Exception` (lines 110-112) handles it and returns.
Escapes(e) == FALSE

\* An exception e raised inside the try of start_detection: lines 110-112
\* clear the flag; run_detection_in_thread (lines 42-48) records an exception
\* that reaches it in the registry entry, when there is one.  The capture is
\* not released on this path.
Raise(s, e) ==
    /\ caught' = [caught EXCEPT ![s] = e]
    /\ running' = [running EXCEPT ![s] = FALSE]
    /\ thread' = [thread EXCEPT ![s] = "done"]
    /\ IF Escapes(e) /\ registered[s]
       THEN /\ status' = [status EXCEPT ![s] = "error"]
            /\ error' = [error EXCEPT ![s] = e]
       ELSE UNCHANGED <<status, error>>

\* line 67
ThreadStart(s) ==
    /\ thread[s] = "spawned"
    /\ running' = [running EXCEPT ![s] = TRUE]
    /\ thread' = [thread EXCEPT ![s] = "open"]
    /\ UNCHANGED <<registry_vars, rtsp_url, frame_count, current_frame,
                   current_results, current_full_detections, last_save_time,
                   cap, current_time, caught, files, now, stopping, resp,
                   viewer_vars, list_vars, probe_vars>>

\* lines 71-77, the stream opens
OpenStream(s) ==
    /\ thread[s] = "open"
    /\ cap' = [cap EXCEPT ![s] = "opened"]
    /\ thread' = [thread EXCEPT ![s] = "loop"]
    /\ UNCHANGED <<registry_vars, detector_vars, current_time, caught, files,
                   now, stopping, resp, viewer_vars, list_vars, probe_vars>>

\* lines 71-74, cap.isOpened() is false: the exception of line 74
OpenStreamFails(s) ==
    /\ thread[s] = "open"
    /\ cap' = [cap EXCEPT ![s] = "unopened"]
    /\ Raise(s, "Could not open RTSP stream")
    /\ UNCHANGED <<registered, rtsp_url, frame_count, current_frame,
                   current_results, current_full_detections, last_save_time,
                   current_time, files, now, stopping, resp, viewer_vars,
                   list_vars, probe_vars>>

\* line 80, the flag is set: another iteration
LoopContinue(s) ==
    /\ thread[s] = "loop"
    /\ running[s]
    /\ thread' = [thread EXCEPT ![s] = "read"]
    /\ UNCHANGED <<registry_vars, detector_vars, cap, current_time, caught,
                   files, now, stopping, resp, viewer_vars, list_vars, probe_vars>>

\* line 80, the flag is clear: lines 107-108, and the thread ends
LoopExit(s) ==
    /\ thread[s] = "loop"
    /\ ~running[s]
    /\ cap' = [cap EXCEPT ![s] = "released"]
    /\ thread' = [thread EXCEPT ![s] = "done"]
    /\ UNCHANGED <<registry_vars, detector_vars, current_time, caught, files,
                   now, stopping, resp, viewer_vars, list_vars, probe_vars>>

\* lines 81-91: a frame is read and counted
ReadFrame(s) ==
    /\ thread[s] = "read"
    /\ cap[s] = "opened"
    /\ frame_count[s] < MaxFrames
    /\ frame_count' = [frame_count EXCEPT ![s] = @ + 1]
    /\ thread' = [thread EXCEPT ![s] = "publish"]
    /\ UNCHANGED <<registry_vars, rtsp_url, running, current_frame,
                   current_results, current_full_detections, last_save_time,
                   cap, current_time, caught, files, now, stopping, resp,
                   viewer_vars, list_vars, probe_vars>>

\* A failed read that ends the thread.
AfterReadFailure_GiveUp == "done"

\* Where a failed read sends the thread: `continue`, back to the loop test.
AfterReadFailure == "loop"

\* lines 81-89: ret is false (always so on a capture that did not open);
\* after the sleep the capture is released and opened again, which may fail.
ReadFails(s) ==
    /\ thread[s] = "read"
    /\ \E reopened \in {"opened", "unopened"} :
          cap' = [cap EXCEPT ![s] = reopened]
    /\ thread' = [thread EXCEPT ![s] = AfterReadFailure]
    /\ UNCHANGED <<registry_vars, detector_vars, current_time, caught, files,
                   now, stopping, resp, viewer_vars, list_vars, probe_vars>>

\* line 92: the frame just read is the frame_count-th of the session
Publish(s) ==
    /\ thread[s] = "publish"
    /\ current_frame' = [current_frame EXCEPT ![s] = frame_count[s]]
    /\ thread' = [thread EXCEPT ![s] = "detect"]
    /\ UNCHANGED <<registry_vars, rtsp_url, running, frame_count,
                   current_results, current_full_detections, last_save_time,
                   cap, current_time, caught, files, now, stopping, resp,
                   viewer_vars, list_vars, probe_vars>>

\* _process_results, lines 130-164: the boxes of the detect classes, each with
\* its index among all boxes, and of those the ones of the save classes
Boxes(out) == [i \in 1..Len(out) |-> [id |-> i - 1, class_id |-> out[i]]]
all_detections(out) ==
    SelectSeq(Boxes(out), LAMBDA d : d.class_id \in detect_classes)
\* The persisted view taken to be the whole full view.
saved_detections_Unfiltered(out) == all_detections(out)

saved_detections(out) ==
    SelectSeq(all_detections(out), LAMBDA d : d.class_id \in save_classes)

\* A loop with a sampling ratio: the model runs on the first of every three
\* frames and the views of the frame before are kept for the other two.
Detect_Sampled(s, out) ==
    /\ thread[s] = "detect"
    /\ IF frame_count[s] % 3 = 1
       THEN /\ current_results' = [current_results EXCEPT ![s] =
                  Some([frame_id |-> frame_count[s],
                        detections |-> saved_detections(out)])]
            /\ current_full_detections' = [current_full_detections EXCEPT ![s] =
                  Some([frame_id |-> frame_count[s],
                        detections |-> all_detections(out),
                        frame_path |-> FALSE])]
       ELSE UNCHANGED <<current_results, current_full_detections>>
    /\ thread' = [thread EXCEPT ![s] = "timecheck"]
    /\ UNCHANGED <<registry_vars, rtsp_url, running, frame_count,
                   current_frame, last_save_time, cap, current_time, caught,
                   files, now, stopping, resp, viewer_vars, list_vars,
                   probe_vars>>

\* lines 95-98: the model runs on the frame and _process_results stores the
\* two records (lines 167-185)
Detect(s, out) ==
    /\ thread[s] = "detect"
    /\ current_results' = [current_results EXCEPT ![s] =
          Some([frame_id |-> frame_count[s],
                detections |-> saved_detections(out)])]
    /\ current_full_detections' = [current_full_detections EXCEPT ![s] =
          Some([frame_id |-> frame_count[s],
                detections |-> all_detections(out),
                frame_path |-> FALSE])]
    /\ thread' = [thread EXCEPT ![s] = "timecheck"]
    /\ UNCHANGED <<registry_vars, rtsp_url, running, frame_count,
                   current_frame, last_save_time, cap, current_time, caught,
                   files, now, stopping, resp, viewer_vars, list_vars, probe_vars>>

\* line 95 raises
DetectFails(s) ==
    /\ thread[s] = "detect"
    /\ Raise(s, "model error")
    /\ UNCHANGED <<registered, rtsp_url, frame_count, current_frame,
                   current_results, current_full_detections, last_save_time,
                   cap, current_time, files, now, stopping, resp, viewer_vars,
                   list_vars, probe_vars>>

\* lines 101-102
TimeCheck(s) ==
    /\ thread[s] = "timecheck"
    /\ current_time' = [current_time EXCEPT ![s] = now]
    /\ thread' = [thread EXCEPT ![s] =
          IF now - last_save_time[s] >= save_interval THEN "save" ELSE "loop"]
    /\ UNCHANGED <<registry_vars, detector_vars, cap, caught, files, now,
                   stopping, resp, viewer_vars, list_vars, probe_vars>>

\* _save_results, lines 198-257, for a record that is not None: the json file
\* named by the time of the save and, with a frame and a detection in the full
\* view, the original and annotated images of the same name
\* The images written when the persisted view holds a detection.
ImagesWritten_PersistedView(s) ==
    current_frame[s] # 0 /\ Len(Get(current_results[s]).detections) > 0

\* line 206
ImagesWritten(s) ==
    current_frame[s] # 0 /\ Len(Get(current_full_detections[s]).detections) > 0

SavedFile(s) ==
    LET rec == Get(current_results[s])
        images == ImagesWritten(s)
    IN  [ts |-> now, frame_id |-> rec.frame_id, detections |-> rec.detections,
         original |-> images, annotated |-> images]

\* lines 103-104: the files are written
Save(s) ==
    /\ thread[s] = "save"
    /\ files' = [files EXCEPT ![s] =
          IF IsNone(current_results[s]) THEN @ ELSE Append(@, SavedFile(s))]
    /\ last_save_time' = [last_save_time EXCEPT ![s] = current_time[s]]
    /\ thread' = [thread EXCEPT ![s] = "loop"]
    /\ UNCHANGED <<registry_vars, rtsp_url, running, frame_count,
                   current_frame, current_results, current_full_detections,
                   cap, current_time, caught, now, stopping, resp,
                   viewer_vars, list_vars, probe_vars>>

\* line 103: open() or json.dump raises inside _save_results (lines 202-203)
SaveFails(s) ==
    /\ thread[s] = "save"
    /\ ~IsNone(current_results[s])
    /\ Raise(s, "write error")
    /\ UNCHANGED <<registered, rtsp_url, frame_count, current_frame,
                   current_results, current_full_detections, last_save_time,
                   cap, current_time, files, now, stopping, resp, viewer_vars,
                   list_vars, probe_vars>>

\* The wall clock advances.
Tick ==
    /\ now < MaxTime
    /\ now' = now + 1
    /\ UNCHANGED <<registry_vars, detector_vars, worker_vars, files, stopping,
                   resp, viewer_vars, list_vars, probe_vars>>

(***************************************************************************)
(* app.video_feed.generate: GET /api/stream/<session_id>                   *)
(***************************************************************************)
\* lines 290-302: what the generator does when first resumed
StreamOpen(v, s) ==
    /\ vpc[v] \in {"idle", "closed"}
    /\ vsid' = [vsid EXCEPT ![v] = s]
    /\ vframe' = [vframe EXCEPT ![v] = 0]
    /\ voverlay' = [voverlay EXCEPT ![v] = None]
    /\ vcount' = [vcount EXCEPT ![v] = 0]
    /\ IF ~registered[s]
       THEN /\ chunk' = [chunk EXCEPT ![v] = "error: Session not found"]
            /\ vpc' = [vpc EXCEPT ![v] = "return"]
       ELSE IF status[s] # "running"
       THEN /\ chunk' = [chunk EXCEPT ![v] = "error: Session not running"]
            /\ vpc' = [vpc EXCEPT ![v] = "return"]
       ELSE /\ chunk' = [chunk EXCEPT ![v] = "none"]
            /\ vpc' = [vpc EXCEPT ![v] = "while"]
    /\ UNCHANGED <<registry_vars, detector_vars, worker_vars, files, now,
                   stopping, resp, list_vars, probe_vars>>

\* lines 292, 297, 302: resumed after its error frame, the generator returns
StreamReturn(v) ==
    /\ vpc[v] = "return"
    /\ vpc' = [vpc EXCEPT ![v] = "closed"]
    /\ UNCHANGED <<registry_vars, detector_vars, worker_vars, files, now,
                   stopping, resp, vsid, vframe, voverlay, vcount, chunk, list_vars, probe_vars>>

\* A loop that goes on whatever the status is.
AfterLoop_GoesOn == "frame"

\* What the generator does when the loop test of line 304 fails: it falls off
\* the end of generate().
AfterLoop == "closed"

\* A loop that goes on for as long as the detector's flag is set.
LoopTest_Flag(s) == running[s]

\* line 304, the test of the loop
LoopTest(s) == status[s] = "running"

\* line 304
StreamWhile(v) ==
    /\ vpc[v] = "while"
    /\ vpc' = [vpc EXCEPT ![v] =
          IF LoopTest(vsid[v]) THEN "frame" ELSE AfterLoop]
    /\ UNCHANGED <<registry_vars, detector_vars, worker_vars, files, now,
                   stopping, resp, vsid, vframe, voverlay, vcount, chunk, list_vars, probe_vars>>

\* lines 307-309 and 355-360: the frame is copied, or the placeholder sent
StreamFrame(v) ==
    /\ vpc[v] = "frame"
    /\ IF current_frame[vsid[v]] = 0
       THEN /\ chunk' = [chunk EXCEPT ![v] = "error: No frame available"]
            /\ vpc' = [vpc EXCEPT ![v] = "while"]
            /\ UNCHANGED vframe
       ELSE /\ vframe' = [vframe EXCEPT ![v] = current_frame[vsid[v]]]
            /\ vpc' = [vpc EXCEPT ![v] = "overlay"]
            /\ UNCHANGED chunk
    /\ UNCHANGED <<registry_vars, detector_vars, worker_vars, files, now,
                   stopping, resp, vsid, voverlay, vcount, list_vars, probe_vars>>

\* lines 312-333: the boxes of the full view are drawn on the copy
StreamOverlay(v) ==
    /\ vpc[v] = "overlay"
    /\ voverlay' = [voverlay EXCEPT ![v] = current_full_detections[vsid[v]]]
    /\ vpc' = [vpc EXCEPT ![v] = "encode"]
    /\ UNCHANGED <<registry_vars, detector_vars, worker_vars, files, now,
                   stopping, resp, vsid, vframe, vcount, chunk, list_vars, probe_vars>>

\* lines 336-354 and 360: the frame is stamped with the frame_count read now
\* (line 338), encoded and sent, or "Encoding error" sent
StreamEncode(v) ==
    /\ vpc[v] = "encode"
    /\ vcount' = [vcount EXCEPT ![v] = frame_count[vsid[v]]]
    /\ \E ret \in BOOLEAN :
          chunk' = [chunk EXCEPT ![v] =
              IF ret THEN "frame" ELSE "error: Encoding error"]
    /\ vpc' = [vpc EXCEPT ![v] = "while"]
    /\ UNCHANGED <<registry_vars, detector_vars, worker_vars, files, now,
                   stopping, resp, vsid, vframe, voverlay, list_vars, probe_vars>>

\* lines 362-365: drawing or encoding raises
StreamRaises(v) ==
    /\ vpc[v] \in {"overlay", "encode"}
    /\ chunk' = [chunk EXCEPT ![v] = "error: Error"]
    /\ vpc' = [vpc EXCEPT ![v] = "while"]
    /\ UNCHANGED <<registry_vars, detector_vars, worker_vars, files, now,
                   stopping, resp, vsid, vframe, voverlay, vcount, list_vars, probe_vars>>

(***************************************************************************)
(* validate_rtsp_url on its own                                            *)
(***************************************************************************)
ProbeValidate ==
    /\ probe_valid = "unset"
    /\ probe_valid' = IF validate_rtsp_url(probe_url) THEN "accepted" ELSE "rejected"
    /\ UNCHANGED <<registry_vars, detector_vars, worker_vars, files, now,
                   stopping, resp, viewer_vars, list_vars, probe_url>>

InitValidate ==
    /\ InitProgram
    /\ probe_url \in Urls
    /\ probe_valid = "unset"

(***************************************************************************)
(* Specifications                                                          *)
(***************************************************************************)
\* The request handlers, for the session ids of pool.
Handlers(pool) ==
    \/ \E req \in CreateRequests :
          \/ StartDetectionReject(req)
          \/ StartDetectionFails(req)
          \/ StartDetectionSpawn(req, pool)
    \/ \E s \in pool :
          \/ StartDetectionRegister(s)
          \/ StopNotFound(s)
          \/ StopBegin(s)
          \/ StopFinish(s)
          \/ SessionStatus(s)

\* The detection thread of session s, with a model that answers from outs.
Worker(s, outs) ==
    \/ ThreadStart(s)
    \/ OpenStream(s)
    \/ OpenStreamFails(s)
    \/ LoopContinue(s)
    \/ LoopExit(s)
    \/ ReadFrame(s)
    \/ ReadFails(s)
    \/ Publish(s)
    \/ \E out \in outs : Detect(s, out)
    \/ DetectFails(s)
    \/ TimeCheck(s)
    \/ Save(s)
    \/ SaveFails(s)

Viewer(v, pool) ==
    \/ \E s \in pool : StreamOpen(v, s)
    \/ StreamReturn(v)
    \/ StreamWhile(v)
    \/ StreamFrame(v)
    \/ StreamOverlay(v)
    \/ StreamEncode(v)
    \/ StreamRaises(v)

\* A model that reports one person in every frame.
PersonOnly == {<<0>>}
\* The first session id alone.
One == {1}

\* The detection thread of session s on a source that delivers no frame.
WorkerNoFrame(s) ==
    \/ ThreadStart(s)
    \/ OpenStream(s)
    \/ OpenStreamFails(s)
    \/ LoopContinue(s)
    \/ LoopExit(s)
    \/ ReadFails(s)

\* The registry: the handlers of every session id, and detection threads
\* whose sources deliver no frame.
Next ==
    \/ Handlers(Sessions)
    \/ \E s \in Sessions : WorkerNoFrame(s)

Spec == Init /\ [][Next]_vars

\* Every session id, handlers and detection threads, within one save
\* interval and without viewers.
NextSessions ==
    \/ Handlers(Sessions)
    \/ \E s \in Sessions : Worker(s, PersonOnly)

SpecSessions == Init /\ [][NextSessions]_vars

\* One session, its handlers and its detection thread, with the clock.
NextSession ==
    \/ Handlers(One)
    \/ \E s \in One : Worker(s, PersonOnly)
    \/ Tick

SpecSession == Init /\ [][NextSession]_vars

\* The detection thread is a running Python thread, and a request being
\* handled runs to its response.
FairSession ==
    /\ \A s \in One : WF_vars(Worker(s, PersonOnly))
    /\ \A s \in One : WF_vars(StopFinish(s))

SpecSessionFair == SpecSession /\ FairSession

\* One session and one viewer, within one save interval.
NextStream ==
    \/ Handlers(One)
    \/ \E s \in One : Worker(s, PersonOnly)
    \/ \E v \in Viewers : Viewer(v, One)

SpecStream == Init /\ [][NextStream]_vars

SpecValidate == InitValidate /\ [][ProbeValidate]_vars

\* The results requests for the session ids of pool.
ResultsHandlers(pool) ==
    \E s \in pool : \E limit \in Limits :
        \/ GetDetectionResultsNotFound(s, limit)
        \/ GetDetectionResults(s, limit)

\* One session with its detection thread and the clock, started, stopped and
\* asked for its results.
NextResults ==
    \/ \E req \in {Url(Str_rtsp_cam)} : StartDetectionSpawn(req, One)
    \/ \E s \in One : StartDetectionRegister(s) \/ StopBegin(s) \/ StopFinish(s)
    \/ \E s \in One : Worker(s, PersonOnly)
    \/ Tick
    \/ ResultsHandlers(One)

SpecResults == Init /\ [][NextResults]_vars

\* One session, started and stopped, with the clock and a detection thread
\* whose model may report any boxes.
NextSave ==
    \/ \E req \in {Url(Str_rtsp_cam)} : StartDetectionSpawn(req, One)
    \/ \E s \in One : StartDetectionRegister(s) \/ StopBegin(s) \/ StopFinish(s)
    \/ \E s \in One : Worker(s, ModelOutputs)
    \/ Tick

SpecSave == Init /\ [][NextSave]_vars

\* The list requests.
ListHandlers ==
    \/ ListBegin
    \/ ListRaises
    \/ \E s \in Sessions : ListNext(s)
    \/ ListReturn

\* The registry under start, stop and list requests; no detection thread
\* takes a step.
NextList ==
    \/ \E req \in {Url(Str_rtsp_cam)} : StartDetectionSpawn(req, Sessions)
    \/ \E s \in Sessions :
          StartDetectionRegister(s) \/ StopBegin(s) \/ StopFinish(s)
    \/ ListHandlers

SpecList == Init /\ [][NextList]_vars

\* The first two session ids.
Pair == {1, 2}

\* Two sessions side by side, started and stopped, each with its detection
\* thread, within one save interval.
NextIsolation ==
    \/ \E req \in {Url(Str_rtsp_cam)} : StartDetectionSpawn(req, Pair)
    \/ \E s \in Pair :
          StartDetectionRegister(s) \/ StopBegin(s) \/ StopFinish(s)
    \/ \E s \in Pair : Worker(s, PersonOnly)

SpecIsolation == Init /\ [][NextIsolation]_vars

(***************************************************************************)
(* Properties                                                              *)
(***************************************************************************)
\* A handler returned: the step writes a response of operation op.
Returned(op) == resp' # resp /\ resp'.op = op

FatalErrors == {"Could not open RTSP stream", "model error"}

\* The request of a start response passed the presence test and the validation.
ValidStart == Returned("start") /\ resp'.req.given /\ validate_rtsp_url(resp'.req.url)

\* The step registers exactly the session resp' names, as running, with its thread.
RegistersOne ==
    LET s == resp'.sid IN
        /\ s \in Sessions
        /\ ~registered[s]
        /\ registered' = [registered EXCEPT ![s] = TRUE]
        /\ status' = [status EXCEPT ![s] = "running"]
        /\ thread'[s] # "none"
        /\ thread' = thread

C2_FatalSetsError ==
    \A s \in Sessions :
        (/\ thread[s] = "done"
         /\ caught[s] \in FatalErrors
         /\ registered[s]
         /\ ~stopping[s]
         /\ status[s] # "stopped")
        => (status[s] = "error" /\ error[s] = caught[s])

\* C3 as stated: once a stop of a registered session has been answered 200,
\* the session's detection thread eventually ends.
C3_StopEndsThread ==
    \A s \in One :
        (resp.op = "stop" /\ resp.code = 200 /\ resp.sid = s) ~> (thread[s] = "done")

\* C4: a status of stopped or error never changes again.
C4_TerminalStatus ==
    [][\A s \in Sessions :
          status[s] \in {"stopped", "error"} => status'[s] = status[s]]_vars

\* The model raised in a session that had been stopped: the thread ended on
\* the exception and the status stayed stopped.
C4_Witness ==
    \E s \in Sessions :
        status[s] = "stopped" /\ thread[s] = "done" /\ caught[s] = "model error"

\* C5: a stop of an id that is not registered is answered 404 and changes
\* neither the registry nor any detector, thread or file; a stop is carried
\* out only on a registered id; every stop carried out is answered 200 and
\* leaves the status stopped, also when the status was stopped already.
C5_StopIdempotent ==
    [][\A s \in Sessions :
          /\ (Returned("stop") /\ resp'.sid = s /\ ~registered[s]) =>
                /\ resp'.code = 404
                /\ UNCHANGED <<registry_vars, detector_vars, worker_vars, files>>
          /\ (Returned("stop") /\ resp'.sid = s /\ resp'.code = 404) => ~registered[s]
          /\ (~stopping[s] /\ stopping'[s]) => registered[s]
          /\ (stopping[s] /\ ~stopping'[s]) =>
                /\ resp'.op = "stop" /\ resp'.sid = s /\ resp'.code = 200
                /\ status'[s] = "stopped"
                /\ (status[s] = "stopped" => UNCHANGED registry_vars)]_vars

\* A second stop of a session whose first stop has been answered.
C5_Witness ==
    \E s \in Sessions :
        /\ stopping[s] /\ status[s] = "stopped"
        /\ resp.op = "stop" /\ resp.code = 200 /\ resp.sid = s

\* C6: a start request without a url, or with one that fails validation, is
\* answered 400, and the step registers nothing and starts no thread.
C6_InvalidStartRejected ==
    [][(Returned("start") /\ ~(resp'.req.given /\ validate_rtsp_url(resp'.req.url))) =>
          /\ resp'.code = 400
          /\ UNCHANGED <<registry_vars, detector_vars, worker_vars, files>>]_vars

\* A url of another scheme has been refused while a session is registered.
C6_Witness ==
    /\ resp.op = "start" /\ resp.code = 400
    /\ resp.req = Url(Str_http \o <<"h">>)
    /\ \E s \in Sessions : registered[s]

\* C7: validate_rtsp_url accepts a url exactly when it starts with rtsp://.
C7_ValidateIsPrefixTest ==
    probe_valid # "unset" =>
        (probe_valid = "accepted" <=> StartsWith(probe_url, RtspPrefix))

\* A url accepted though the pattern does not match it.
C7_Witness ==
    /\ probe_valid = "accepted"
    /\ ~RtspPatternMatches(probe_url)

\* A step of session s in which a read failed: the thread leaves the read
\* without having counted a frame.
ReadFailed(s) ==
    /\ thread[s] = "read"
    /\ thread'[s] # "read"
    /\ frame_count'[s] = frame_count[s]

\* C8: a failed read, whether or not the capture opens again, sends the thread
\* back to the loop test and changes neither the registry, nor the flag, the
\* frame count, the published frame or the records of the detector.
C8_ReadFailureTransient ==
    [][\A s \in Sessions :
          ReadFailed(s) =>
              /\ thread'[s] = "loop"
              /\ cap'[s] \in {"opened", "unopened"}
              /\ UNCHANGED <<registry_vars, detector_vars, caught>>]_vars

\* After a published frame a read failed and the capture did not open again;
\* the session is still running.
C8_Witness ==
    \E s \in Sessions :
        /\ thread[s] = "loop" /\ cap[s] = "unopened"
        /\ current_frame[s] >= 1
        /\ running[s] /\ status[s] = "running"

\* C9 as stated: after a write of _save_results has raised in a session whose
\* status is running, the thread has not ended and the flag is still set.
C9_SaveFailureNonFatal ==
    \A s \in Sessions :
        (caught[s] = "write error" /\ registered[s] /\ status[s] = "running")
        => (thread[s] # "done" /\ running[s])

\* C10 as stated: a viewer's stream never ends.
C10_StreamStaysOpen ==
    \A v \in Viewers : vpc[v] # "closed"

NotRunning(s) == ~registered[s] \/ status[s] # "running"

\* C10 amended: a stream opened on a session that is absent or not running
\* sends one error frame and then ends; a stream in its loop ends at the loop
\* test once the status is not running, without sending anything more; a
\* stream ends in no other way.
C10_StreamEnds ==
    [][\A v \in Viewers :
          /\ (vpc[v] \in {"idle", "closed"} /\ vpc'[v] \notin {"idle", "closed"}) =>
                IF NotRunning(vsid'[v])
                THEN /\ vpc'[v] = "return"
                     /\ chunk'[v] = IF registered[vsid'[v]]
                                    THEN "error: Session not running"
                                    ELSE "error: Session not found"
                ELSE vpc'[v] = "while"
          /\ (vpc[v] = "return" /\ vpc'[v] # "return") =>
                (vpc'[v] = "closed" /\ chunk'[v] = chunk[v])
          /\ (vpc[v] = "while" /\ vpc'[v] # "while") =>
                IF status[vsid[v]] = "running"
                THEN vpc'[v] = "frame"
                ELSE vpc'[v] = "closed" /\ chunk'[v] = chunk[v]
          /\ (vpc'[v] = "closed" /\ vpc[v] # "closed") =>
                vpc[v] \in {"return", "while"}]_vars

\* A viewer that was receiving frames when its session was stopped: its
\* stream has ended and the last thing it received is a frame.
C10_Witness ==
    \E v \in Viewers :
        /\ vpc[v] = "closed" /\ chunk[v] = "frame"
        /\ status[vsid[v]] = "stopped"

\* C11 as stated: of the records written for one session, any two successive
\* ones that do not involve the first carry timestamps at least save_interval
\* apart.
C11_SavesSpaced ==
    \A s \in Sessions :
        \A i \in 3..Len(files[s]) :
            files[s][i].ts - files[s][i - 1].ts >= save_interval

\* The last record of session s.
LastFile(s) == files[s][Len(files[s])]

\* C12: every save the thread carries out appends exactly one record, named by
\* the time of the save, whatever the detections are; the record comes with
\* its original image exactly when the full view of that moment holds a
\* detection, and with its annotated image exactly when it comes with its
\* original.
C12_SaveWrites ==
    [][\A s \in Sessions :
          (thread[s] = "save" /\ thread'[s] = "loop") =>
              /\ Len(files'[s]) = Len(files[s]) + 1
              /\ SubSeq(files'[s], 1, Len(files[s])) = files[s]
              /\ LET f == files'[s][Len(files'[s])] IN
                    /\ f.ts = now
                    /\ f.frame_id = Get(current_results[s]).frame_id
                    /\ f.original <=>
                          (Len(Get(current_full_detections[s]).detections) > 0)
                    /\ f.annotated <=> f.original]_vars

\* A record written with its images for a car, which the persisted view does
\* not hold, after a record written without images.
C12_Witness ==
    \E s \in Sessions :
        /\ Len(files[s]) >= 2
        /\ ~files[s][1].original /\ ~files[s][1].annotated
        /\ LastFile(s).original /\ LastFile(s).annotated
        /\ LastFile(s).detections = <<>>

InSaveClasses(d) == d.class_id \in save_classes

\* C13: whenever a frame has been processed, the persisted view and the full
\* view are of the same frame, every detection of the full view is of a detect
\* class, and the detections of the persisted view are exactly those of the
\* full view that are of a save class, in the same order.
C13_PersistedIsFilteredFull ==
    \A s \in Sessions :
        (~IsNone(current_results[s]) \/ ~IsNone(current_full_detections[s])) =>
            /\ ~IsNone(current_results[s])
            /\ ~IsNone(current_full_detections[s])
            /\ LET rec == Get(current_results[s])
                   full == Get(current_full_detections[s])
               IN  /\ rec.frame_id = full.frame_id
                   /\ \A i \in 1..Len(full.detections) :
                         full.detections[i].class_id \in detect_classes
                   /\ rec.detections = SelectSeq(full.detections, InSaveClasses)

\* A processed frame whose full view holds a car and whose persisted view is
\* empty.
C13_Witness ==
    \E s \in Sessions :
        /\ ~IsNone(current_results[s])
        /\ ~IsNone(current_full_detections[s])
        /\ Get(current_results[s]).detections = <<>>
        /\ Len(Get(current_full_detections[s]).detections) = 1
        /\ Get(current_full_detections[s]).detections[1].class_id = 2

\* C14 as stated: a results request sent with limit=N is answered with at most
\* N records, each of a frame captured later than the frame of the next.
C14_ResultsLimited ==
    (resp.op = "results" /\ resp.code = 200) =>
        /\ Len(resp.results) <= resp.limit
        /\ \A i \in 1..(Len(resp.results) - 1) :
              resp.results[i].frame_id > resp.results[i + 1].frame_id

StatusValues == {"running", "stopped", "error"}

\* C15: in every reachable state a status request of any session can be
\* answered and a stop that has cleared the flag can write the status and
\* return, whatever other requests are in progress; the status of a
\* registered session, and the status any 200 status response reports, is
\* running, stopped or error.
C15_StopStatusSafe ==
    \A s \in Sessions :
        /\ ENABLED SessionStatus(s)
        /\ stopping[s] => ENABLED StopFinish(s)
        /\ registered[s] => status[s] \in StatusValues
        /\ (resp.op = "status" /\ resp.sid = s /\ resp.code = 200) =>
              resp.status \in StatusValues

\* A status request answered between the two writes of a stop of the same
\* session: it reports running.
C15_Witness ==
    \E s \in Sessions :
        /\ stopping[s]
        /\ resp.op = "status" /\ resp.sid = s /\ resp.code = 200
        /\ resp.status = "running"

\* The step is one of session s: its detection thread moves, or a stop of it
\* begins or returns.
ActsIn(s) == thread'[s] # thread[s] \/ stopping'[s] # stopping[s]

\* C16: a step of the detection thread of one session (an iteration, a failed
\* read, an exception) or of a stop of it leaves the registry entry, the flag,
\* the frame count, the published frame and the full view of every other
\* session as they were.
C16_SessionIsolation ==
    [][\A s \in Sessions :
          ActsIn(s) =>
              \A o \in Sessions \ {s} :
                  /\ registered'[o] = registered[o]
                  /\ status'[o] = status[o]
                  /\ error'[o] = error[o]
                  /\ running'[o] = running[o]
                  /\ frame_count'[o] = frame_count[o]
                  /\ current_frame'[o] = current_frame[o]
                  /\ current_full_detections'[o] = current_full_detections[o]]_vars

\* One session has been stopped and its thread has ended on an exception of
\* the model, while another is running and has processed a frame.
C16_Witness ==
    \E s \in Sessions : \E o \in Sessions \ {s} :
        /\ status[s] = "stopped" /\ thread[s] = "done" /\ caught[s] = "model error"
        /\ status[o] = "running" /\ running[o] /\ frame_count[o] >= 1
        /\ ~IsNone(current_full_detections[o])

\* C17 as stated: the detector runs on the first of every three frames read,
\* so the views of a session are always those of a frame 1, 4, 7, ...
C17_EveryThirdFrame ==
    \A s \in Sessions :
        ~IsNone(current_full_detections[s]) =>
            Get(current_full_detections[s]).frame_id % 3 = 1

\* C18 as stated: when the detection thread has ended, the capture it opened
\* is not left open.
C18_CaptureReleased ==
    \A s \in Sessions : thread[s] = "done" => cap[s] # "opened"

\* C19 as stated: frame_count never decreases, and a viewer that reads
\* frame_count (line 338) never reads a count that the published frame of
\* that moment has not reached.
C19_CountAfterPublish ==
    [][/\ \A s \in Sessions : frame_count'[s] >= frame_count[s]
       /\ \A v \in Viewers :
             (vpc[v] = "encode" /\ vpc'[v] = "while" /\ chunk'[v] # "error: Error") =>
                 /\ vcount'[v] = frame_count[vsid[v]]
                 /\ current_frame[vsid[v]] >= vcount'[v]]_vars

\* C20 as stated: the full view a viewer has drawn on its copy of the frame is
\* of that frame or of an earlier one.
C20_OverlayNotAhead ==
    \A v \in Viewers :
        (vpc[v] = "encode" /\ ~IsNone(voverlay[v])) =>
            Get(voverlay[v]).frame_id <= vframe[v]

\* C21 as stated: the published frame, the full view and the persisted view of
\* a session change only in steps of its own detection thread (or when the
\* detector is built); no results request and no viewer changes them.
C21_OnlyWorkerMutates ==
    [][\A s \in Sessions :
          (\/ current_frame'[s] # current_frame[s]
           \/ current_full_detections'[s] # current_full_detections[s]
           \/ current_results'[s] # current_results[s])
          => thread'[s] # thread[s]]_vars

\* C22 as stated: every list request that has begun its loop ends answered
\* 200, with an entry for every session that was registered when it began,
\* whatever start requests are handled meanwhile.
C22_ListSafe ==
    [][(lpc = "iter" /\ lpc' = "idle") =>
          /\ resp'.op = "list" /\ resp'.code = 200
          /\ lbefore \subseteq Gathered(resp'.sessions)]_vars

\* C23 as stated: whenever the detection thread of a registered session has
\* ended and no stop of the session is between its two writes, the status of
\* the session is not running.
C23_StatusTracksWorker ==
    \A s \in Sessions :
        (registered[s] /\ thread[s] = "done" /\ ~stopping[s]) =>
            status[s] # "running"

\* C24 as stated: the detection thread of a session takes no step of
\* start_detection before the session is registered, so whatever it records
\* finds the entry and the registration never comes after it.
C24_RegisteredBeforeWorker ==
    \A s \in Sessions :
        thread[s] \notin {"none", "spawned"} => registered[s]

CycleChunks == {"frame", "error: Encoding error", "error: Error"}

\* C25: a viewer in its loop leaves the loop test for another cycle whenever
\* the status is running, and ends nowhere but at the loop test; a cycle sends
\* nothing until it ends and ends by sending one chunk: the placeholder, at
\* once, when no frame has been published; otherwise, after the frame has
\* been copied and drawn on, the frame (stamped with the frame count) or the
\* encoding error frame, or, when drawing or encoding raises, the error frame.
C25_OneChunkPerCycle ==
    [][\A v \in Viewers :
          /\ (vpc[v] = "while" /\ vpc'[v] # "while" /\ status[vsid[v]] = "running") =>
                (vpc'[v] = "frame" /\ chunk'[v] = chunk[v])
          /\ (vpc[v] \in {"frame", "overlay", "encode"}) => vpc'[v] # "closed"
          /\ (vpc[v] = "frame" /\ vpc'[v] # "frame") =>
                IF current_frame[vsid[v]] = 0
                THEN vpc'[v] = "while" /\ chunk'[v] = "error: No frame available"
                ELSE /\ vpc'[v] = "overlay" /\ chunk'[v] = chunk[v]
                     /\ vframe'[v] = current_frame[vsid[v]]
          /\ (vpc[v] = "overlay" /\ vpc'[v] # "overlay") =>
                \/ vpc'[v] = "encode" /\ chunk'[v] = chunk[v]
                \/ vpc'[v] = "while" /\ chunk'[v] = "error: Error"
          /\ (vpc[v] = "encode" /\ vpc'[v] # "encode") =>
                (vpc'[v] = "while" /\ chunk'[v] \in CycleChunks)]_vars

\* A viewer that has been sent a frame has passed its loop test again after
\* the detection thread ended on an exception: the flag is clear and the
\* status still running.
C25_Witness ==
    \E v \in Viewers :
        /\ vpc[v] = "frame" /\ chunk[v] = "frame" /\ vcount[v] >= 1
        /\ status[vsid[v]] = "running" /\ ~running[vsid[v]]
        /\ thread[vsid[v]] = "done"

\* C26: every save writes the record of the frame that the full view drawn on
\* the annotated image is of, which is the frame published, saved as the
\* original image, and counted last: the frame_id of the record, the frame_id
\* of the full view, the published frame and frame_count are the same at the
\* save, whatever results requests are handled meanwhile.
C26_SaveOfOneFrame ==
    [][\A s \in Sessions :
          files'[s] # files[s] =>
              /\ thread[s] = "save"
              /\ LET f == files'[s][Len(files'[s])] IN
                    /\ f.frame_id = Get(current_full_detections[s]).frame_id
                    /\ f.frame_id = frame_count[s]
                    /\ f.frame_id = current_frame[s]
                    /\ f.frame_id = Get(current_results[s]).frame_id]_vars

\* The second frame has been saved with its images after a results request
\* stored the frame path in the full view it is drawn from.
C26_Witness ==
    \E s \in Sessions :
        /\ thread[s] = "loop"
        /\ Len(files[s]) >= 2
        /\ LastFile(s).frame_id = 2 /\ frame_count[s] = 2
        /\ LastFile(s).annotated
        /\ Get(current_full_detections[s]).frame_path

=============================================================================
